---- MODULE Spec2Model ----
(***************************************************************************)
(* Model of the signal-generation pipeline of src/agents/example_agent.py  *)
(* (example_agent and the functions it calls) and of the model-catalog     *)
(* route of app/backend/routes/language_models.py (get_language_models).   *)
(*                                                                         *)
(* Numbers.  Financial ratios are carried in hundredths (0.15 is 15), so   *)
(* the comparisons of the rubric are integer comparisons with the same     *)
(* outcome.  A score (a Python float) is an exact fraction [num, den] in   *)
(* lowest terms; for every (score, max_score) the rubric can produce, the  *)
(* float (total / max) * 100 falls in the same threshold tier as the exact *)
(* fraction and equals it whenever the fraction is an integer.             *)
(*                                                                         *)
(* Python values that cross the LLM boundary are tagged records (PyDict,   *)
(* PyList, PyStr, PyNum, PyNone), so that equality of two values of        *)
(* different Python types is defined (and false).                          *)
(***************************************************************************)
EXTENDS Integers, Sequences, FiniteSets, TLC

VARIABLES
    \* ---- example_agent: inputs (the AgentState) ----
    tickers,          \* state["data"]["tickers"], a list
    show_reasoning,   \* state["metadata"]["show_reasoning"]
    state_messages,   \* state["messages"]
    \* ---- example_agent: locals and position ----
    pc,               \* position in example_agent
    idx,              \* 1-based position of the for loop in tickers
    metrics,          \* local: result of get_financial_metrics
    line_items,       \* local: result of search_line_items
    market_cap,       \* local: result of get_market_cap
    example_signals,  \* local dict: ticker -> deterministic signal
    final_signals,    \* local: what validate_with_llm returned
    returned,         \* the value example_agent returned (None until it returns)
    \* ---- example_agent: the collaborators as the run touched them ----
    llm_reply,        \* what call_llm did in this run (None before the call)
    llm_calls,        \* number of call_llm invocations
    trace,            \* calls made to the collaborators, in order
    \* ---- the scorers and the aggregator on their own ----
    sc_metrics, sc_core, sc_advanced, sc_score,
    \* ---- generate_signal on its own ----
    gs_score, gs_market_cap, gs_result,
    \* ---- get_language_models ----
    api_keys,         \* api_key_repo.get_all_api_keys(include_inactive=False)
    all_models,       \* get_models_list()
    ollama_models,    \* ollama_service.get_available_models()
    response          \* what the route handler produced (None before it ran)

agentVars == <<tickers, show_reasoning, state_messages, pc, idx, metrics,
               line_items, market_cap, example_signals, final_signals,
               returned, llm_reply, llm_calls, trace>>
scorerVars == <<sc_metrics, sc_core, sc_advanced, sc_score>>
signalVars == <<gs_score, gs_market_cap, gs_result>>
routeVars == <<api_keys, all_models, ollama_models, response>>
vars == <<agentVars, scorerVars, signalVars, routeVars>>

----------------------------------------------------------------------------
(* Bounds of the model. *)
MaxTickers == 2
MaxSnapshots == 2
MaxDen == 3
MaxCatalog == 2
MaxOllama == 1

----------------------------------------------------------------------------
(* Python values. *)

\* Python's None, and an optional value that is present.
None == <<>>
Some(v) == <<v>>

\* bool(x) of a number-or-None: None and 0 are falsy.
Truthy(x) == x # None /\ x[1] # 0

RECURSIVE Gcd(_, _)
Gcd(a, b) == IF b = 0 THEN a ELSE Gcd(b, a % b)

\* The fraction n/d (d > 0, n >= 0) in lowest terms.
Frac(n, d) == LET g == Gcd(n, d) IN [num |-> n \div g, den |-> d \div g]
FracGE(r, k) == r.num >= k * r.den
FracLE(r, k) == r.num <= k * r.den
\* 100 - r
FracFrom100(r) == Frac(100 * r.den - r.num, r.den)

\* format(score, ".1f"): the number of tenths nearest to r, a tie going to the
\* even tenth (the ties the model builds, quarters, are exact as floats).
Format1f(r) ==
    LET q == (10 * r.num) \div r.den
        rem == 10 * r.num - q * r.den
    IN  IF 2 * rem > r.den THEN q + 1
        ELSE IF 2 * rem < r.den THEN q
        ELSE IF q % 2 = 0 THEN q ELSE q + 1

\* A local or a result that has no value yet.
Unset == [type |-> "unset"]

\* n / d of Python: a ZeroDivisionError when d is 0.
ZeroDivisionError == [type |-> "raised", error |-> "ZeroDivisionError"]
PyDiv(n, d) == IF d = 0 THEN ZeroDivisionError ELSE Frac(n, d)

PyNone == [type |-> "NoneType"]
PyStr(s) == [type |-> "str", s |-> s]
PyFStr(template, tenths) == [type |-> "str", template |-> template, shown |-> tenths]
PyNum(r) == [type |-> "number", n |-> r]
PyList(q) == [type |-> "list", elems |-> q]
PyDict(f) == [type |-> "dict", entries |-> f]
EmptyMap == [k \in {} |-> None]

----------------------------------------------------------------------------
(* The metrics snapshots (FinancialMetrics records; the fields the rubric  *)
(* reads).                                                                 *)

Snapshot(roe, de, rg, eg) ==
    [return_on_equity |-> roe, debt_to_equity |-> de,
     revenue_growth |-> rg, earnings_growth |-> eg]

\* One value per tier of each rubric item, each threshold itself, a negative
\* value, zero and None.
RoeValues == {None, Some(0), Some(-5), Some(5), Some(10), Some(15), Some(20)}
DebtValues == {None, Some(0), Some(-10), Some(20), Some(30), Some(50)}
RevenueGrowthValues == {None, Some(0), Some(5), Some(10), Some(20), Some(25)}
EarningsGrowthValues == {None, Some(0), Some(15), Some(25), Some(30)}

Snapshots ==
    {Snapshot(roe, de, rg, eg) : roe \in RoeValues, de \in DebtValues,
                                  rg \in RevenueGrowthValues,
                                  eg \in EarningsGrowthValues}

\* The older snapshots of a sequence (index 1 and later are never read).
OlderSnapshots ==
    {Snapshot(None, None, None, None), Snapshot(Some(20), Some(20), Some(25), Some(30))}

RECURSIVE OlderSeqs(_)
OlderSeqs(n) ==
    IF n = 0 THEN {<<>>}
    ELSE {<<s>> \o rest : s \in OlderSnapshots, rest \in OlderSeqs(n - 1)}

\* Every metrics list of at most MaxSnapshots snapshots, most recent first.
MetricsLists ==
    {<<>>} \cup
    UNION {{<<s>> \o rest : s \in Snapshots, rest \in OlderSeqs(n - 1)} :
           n \in 1..MaxSnapshots}

----------------------------------------------------------------------------
(* analyze_core_metrics *)

Breakdown(score, max_score, reasoning) ==
    [score |-> score, max_score |-> max_score, reasoning |-> reasoning]

\* the ROE item with a missing value scored as the lowest tier
ScoreRoeWorstTier(b, latest) ==
    LET v == latest.return_on_equity IN
    IF Truthy(v) /\ v[1] > 15
    THEN Breakdown(b.score + 3, b.max_score + 3,
                   ("roe" :> "excellent ROE (above 15%)") @@ b.reasoning)
    ELSE IF Truthy(v) /\ v[1] > 10
    THEN Breakdown(b.score + 2, b.max_score + 3,
                   ("roe" :> "good ROE (10-15%)") @@ b.reasoning)
    ELSE IF Truthy(v) /\ v[1] > 5
    THEN Breakdown(b.score + 1, b.max_score + 3,
                   ("roe" :> "moderate ROE (5-10%)") @@ b.reasoning)
    ELSE Breakdown(b.score, b.max_score + 3,
                   ("roe" :> "low ROE (below 5%)") @@ b.reasoning)

\* lines 124-136: the ROE item, applied to the breakdown so far
ScoreRoe(b, latest) ==
    LET v == latest.return_on_equity IN
    IF Truthy(v)
    THEN IF v[1] > 15
         THEN Breakdown(b.score + 3, b.max_score + 3,
                        ("roe" :> "excellent ROE (above 15%)") @@ b.reasoning)
         ELSE IF v[1] > 10
         THEN Breakdown(b.score + 2, b.max_score + 3,
                        ("roe" :> "good ROE (10-15%)") @@ b.reasoning)
         ELSE IF v[1] > 5
         THEN Breakdown(b.score + 1, b.max_score + 3,
                        ("roe" :> "moderate ROE (5-10%)") @@ b.reasoning)
         ELSE Breakdown(b.score, b.max_score + 3,
                        ("roe" :> "low ROE (below 5%)") @@ b.reasoning)
    ELSE b

\* lines 139-148: the debt-to-equity item
ScoreDebt(b, latest) ==
    LET v == latest.debt_to_equity IN
    IF Truthy(v)
    THEN IF v[1] < 30
         THEN Breakdown(b.score + 2, b.max_score + 2,
                        ("debt" :> "conservative debt ratio (below 30%)") @@ b.reasoning)
         ELSE IF v[1] < 50
         THEN Breakdown(b.score + 1, b.max_score + 2,
                        ("debt" :> "adequate debt ratio (30-50%)") @@ b.reasoning)
         ELSE Breakdown(b.score, b.max_score + 2,
                        ("debt" :> "high debt ratio (50% or more)") @@ b.reasoning)
    ELSE b

analyze_core_metrics(m, li) ==
    LET start == Breakdown(0, 0, EmptyMap) IN
    IF m # None /\ Len(m) > 0
    THEN ScoreDebt(ScoreRoe(start, m[1]), m[1])
    ELSE start

----------------------------------------------------------------------------
(* perform_advanced_analysis *)

\* lines 169-181: the revenue-growth item
ScoreRevenueGrowth(b, current) ==
    LET v == current.revenue_growth IN
    IF Truthy(v)
    THEN IF v[1] > 20
         THEN Breakdown(b.score + 3, b.max_score + 3,
                        ("revenue_growth" :> "high revenue growth (above 20%)") @@ b.reasoning)
         ELSE IF v[1] > 10
         THEN Breakdown(b.score + 2, b.max_score + 3,
                        ("revenue_growth" :> "good revenue growth (10-20%)") @@ b.reasoning)
         ELSE IF v[1] > 5
         THEN Breakdown(b.score + 1, b.max_score + 3,
                        ("revenue_growth" :> "moderate revenue growth (5-10%)") @@ b.reasoning)
         ELSE Breakdown(b.score, b.max_score + 3,
                        ("revenue_growth" :> "low revenue growth (below 5%)") @@ b.reasoning)
    ELSE b

\* lines 184-193: the earnings-growth item
ScoreEarningsGrowth(b, current) ==
    LET v == current.earnings_growth IN
    IF Truthy(v)
    THEN IF v[1] > 25
         THEN Breakdown(b.score + 2, b.max_score + 2,
                        ("earnings_growth" :> "high earnings growth (above 25%)") @@ b.reasoning)
         ELSE IF v[1] > 15
         THEN Breakdown(b.score + 1, b.max_score + 2,
                        ("earnings_growth" :> "good earnings growth (15-25%)") @@ b.reasoning)
         ELSE Breakdown(b.score, b.max_score + 2,
                        ("earnings_growth" :> "moderate earnings growth (below 15%)") @@ b.reasoning)
    ELSE b

\* line 164: the growth items are scored only with a previous snapshot
HasPrevious(m) == m # None /\ Len(m) > 1

perform_advanced_analysis(m, li) ==
    LET start == Breakdown(0, 0, EmptyMap) IN
    IF HasPrevious(m)
    THEN ScoreEarningsGrowth(ScoreRevenueGrowth(start, m[1]), m[1])
    ELSE start

----------------------------------------------------------------------------
(* calculate_comprehensive_score *)

\* the aggregator without the guard of lines 207-208
calculate_comprehensive_score_unguarded(core_analysis, advanced_analysis) ==
    PyDiv(100 * (core_analysis.score + advanced_analysis.score),
          core_analysis.max_score + advanced_analysis.max_score)

calculate_comprehensive_score(core_analysis, advanced_analysis) ==
    LET total_score == core_analysis.score + advanced_analysis.score
        max_possible_score == core_analysis.max_score + advanced_analysis.max_score
    IN  IF max_possible_score = 0
        THEN Frac(0, 1)
        ELSE PyDiv(100 * total_score, max_possible_score)

----------------------------------------------------------------------------
(* generate_signal *)

\* the classifier with the thresholds open at the lower end
generate_signal_strict(comprehensive_score, cap) ==
    IF ~FracLE(comprehensive_score, 80)
    THEN [signal |-> "bullish", confidence |-> comprehensive_score,
          reasoning |-> PyFStr("very strong investment candidate",
                               Format1f(comprehensive_score))]
    ELSE IF ~FracLE(comprehensive_score, 60)
    THEN [signal |-> "bullish", confidence |-> comprehensive_score,
          reasoning |-> PyFStr("good investment candidate",
                               Format1f(comprehensive_score))]
    ELSE IF ~FracLE(comprehensive_score, 40)
    THEN [signal |-> "neutral", confidence |-> Frac(50, 1),
          reasoning |-> PyFStr("neutral investment candidate",
                               Format1f(comprehensive_score))]
    ELSE [signal |-> "bearish", confidence |-> FracFrom100(comprehensive_score),
          reasoning |-> PyFStr("caution warranted",
                               Format1f(comprehensive_score))]

generate_signal(comprehensive_score, cap) ==
    IF FracGE(comprehensive_score, 80)
    THEN [signal |-> "bullish", confidence |-> comprehensive_score,
          reasoning |-> PyFStr("very strong investment candidate",
                               Format1f(comprehensive_score))]
    ELSE IF FracGE(comprehensive_score, 60)
    THEN [signal |-> "bullish", confidence |-> comprehensive_score,
          reasoning |-> PyFStr("good investment candidate",
                               Format1f(comprehensive_score))]
    ELSE IF FracGE(comprehensive_score, 40)
    THEN [signal |-> "neutral", confidence |-> Frac(50, 1),
          reasoning |-> PyFStr("neutral investment candidate",
                               Format1f(comprehensive_score))]
    ELSE [signal |-> "bearish", confidence |-> FracFrom100(comprehensive_score),
          reasoning |-> PyFStr("caution warranted",
                               Format1f(comprehensive_score))]

----------------------------------------------------------------------------
(* The values the other specifications leave untouched. *)

AgentIdle ==
    /\ tickers = <<>> /\ show_reasoning = FALSE /\ state_messages = <<>>
    /\ pc = "idle" /\ idx = 0
    /\ metrics = Unset /\ line_items = Unset /\ market_cap = Unset
    /\ example_signals = Unset /\ final_signals = Unset /\ returned = Unset
    /\ llm_reply = Unset /\ llm_calls = 0 /\ trace = <<>>

ScorerIdle ==
    sc_metrics = <<>> /\ sc_core = Unset /\ sc_advanced = Unset /\ sc_score = Unset

SignalIdle ==
    gs_score = Unset /\ gs_market_cap = Unset /\ gs_result = Unset

RouteIdle ==
    api_keys = {} /\ all_models = <<>> /\ ollama_models = <<>> /\ response = Unset

----------------------------------------------------------------------------
(* SpecScorer: the two scorers and the aggregator applied to every metrics *)
(* list (lines 68, 71 and 74 of example_agent, on their own).              *)

ScorerInit ==
    /\ sc_metrics \in MetricsLists
    /\ sc_core = Unset /\ sc_advanced = Unset /\ sc_score = Unset
    /\ AgentIdle /\ SignalIdle /\ RouteIdle

ScoreCore ==
    /\ sc_core = Unset
    /\ sc_core' = analyze_core_metrics(sc_metrics, None)
    /\ UNCHANGED <<sc_metrics, sc_advanced, sc_score, agentVars, signalVars, routeVars>>

ScoreAdvanced ==
    /\ sc_core # Unset /\ sc_advanced = Unset
    /\ sc_advanced' = perform_advanced_analysis(sc_metrics, None)
    /\ UNCHANGED <<sc_metrics, sc_core, sc_score, agentVars, signalVars, routeVars>>

Aggregate ==
    /\ sc_advanced # Unset /\ sc_score = Unset
    /\ sc_score' = calculate_comprehensive_score(sc_core, sc_advanced)
    /\ UNCHANGED <<sc_metrics, sc_core, sc_advanced, agentVars, signalVars, routeVars>>

ScorerNext == ScoreCore \/ ScoreAdvanced \/ Aggregate

SpecScorer == ScorerInit /\ [][ScorerNext]_vars

----------------------------------------------------------------------------
(* SpecSignal: generate_signal applied to every score in [0, 100] with a   *)
(* denominator of at most MaxDen, and every market cap.                    *)

Scores == UNION {{Frac(n, d) : n \in 0..(100 * d)} : d \in 1..MaxDen}

MarketCaps == {None, Some(0), Some(1000)}

SignalInit ==
    /\ gs_score \in Scores
    /\ gs_market_cap \in MarketCaps
    /\ gs_result = Unset
    /\ AgentIdle /\ ScorerIdle /\ RouteIdle

Classify ==
    /\ gs_result = Unset
    /\ gs_result' = generate_signal(gs_score, gs_market_cap)
    /\ UNCHANGED <<gs_score, gs_market_cap, agentVars, scorerVars, routeVars>>

SignalNext == Classify

SpecSignal == SignalInit /\ [][SignalNext]_vars

----------------------------------------------------------------------------
(* Spec: one run of example_agent.                                         *)

Tickers == {"AAPL", "MSFT"}

TickerLists == UNION {[1..n -> Tickers] : n \in 0..MaxTickers}

Range(q) == {q[i] : i \in DOMAIN q}

\* What get_financial_metrics may return in a run: no snapshot, a single strong
\* snapshot, and two-snapshot histories that score 0/10 and 5/10.
AgentMetricsLists ==
    {<<>>,
     <<Snapshot(Some(20), Some(20), None, None)>>,
     <<Snapshot(Some(5), Some(50), Some(5), Some(15)), Snapshot(None, None, None, None)>>,
     <<Snapshot(Some(20), Some(50), Some(10), Some(25)), Snapshot(None, None, None, None)>>}

LineItemResults == {<<>>}
MarketCapResults == {None, Some(1000)}
PriorMessages == {<<>>, <<[name |-> "user", content |-> "start"]>>}

\* One call made to a collaborator: progress.update_status(agent_id, ticker,
\* status), a MetricsCollector call, call_llm or show_agent_reasoning.
Event(call, ticker, status) == [call |-> call, ticker |-> ticker, status |-> status]

CollectorCalls == {"get_financial_metrics", "search_line_items", "get_market_cap"}

\* ---- texts and json ----
\* A text is either the JSON encoding of a value or not JSON at all.
JsonText(v) == [type |-> "text", json |-> TRUE, encodes |-> v]
Garbage(chars) == [type |-> "text", json |-> FALSE, chars |-> chars]
\* call_llm handing back something that is not a str
NonText == [type |-> "object"]

json_dumps(v) == JsonText(v)

\* json.loads(x): the value, or the error it raises (TypeError for a non-str,
\* JSONDecodeError for a text that is not JSON).
json_loads(x) ==
    IF x.type # "text" THEN [ok |-> FALSE, error |-> "TypeError"]
    ELSE IF x.json THEN [ok |-> TRUE, value |-> x.encodes]
    ELSE [ok |-> FALSE, error |-> "JSONDecodeError"]

\* ---- what call_llm may do ----
Raise == [kind |-> "raise"]
Return(x) == [kind |-> "return", result |-> x]

ReviewEntry(signal, confidence, reasoning) ==
    PyDict(("signal" :> signal) @@ ("confidence" :> confidence) @@
           ("reasoning" :> reasoning))

\* a review giving every ticker of tks the same entry
Review(tks, entry) == PyDict([t \in Range(tks) |-> entry])

ReplyValues(tks) ==
    {Review(tks, ReviewEntry(PyStr("bearish"), PyNum(Frac(70, 1)), PyStr("weak"))),
     Review(tks, ReviewEntry(PyStr("buy"), PyNum(Frac(70, 1)), PyStr("weak"))),
     Review(tks, ReviewEntry(PyStr("bullish"), PyNum(Frac(150, 1)), PyStr("strong"))),
     PyDict(EmptyMap),
     PyList(<<PyNum(Frac(1, 1)), PyNum(Frac(2, 1))>>),
     PyNum(Frac(42, 1)),
     PyNone}

LlmReplies(tks) ==
    {Raise, Return(NonText), Return(Garbage("")),
     Return(Garbage("Here is my review: AAPL looks strong."))}
    \cup {Return(JsonText(v)) : v \in ReplyValues(tks)}

\* ---- validate_with_llm (lines 260-274) ----
validate_with_llm_empty(signals, reply) ==
    IF reply.kind = "raise"
    THEN PyDict(EmptyMap)
    ELSE LET parsed_result == json_loads(reply.result)
         IN  IF parsed_result.ok THEN parsed_result.value ELSE PyDict(EmptyMap)

validate_with_llm(signals, reply) ==
    IF reply.kind = "raise"
    THEN signals
    ELSE LET parsed_result == json_loads(reply.result)
         IN  IF parsed_result.ok THEN parsed_result.value ELSE signals

\* ---- example_agent ----
AgentInit ==
    /\ tickers \in TickerLists
    /\ show_reasoning \in BOOLEAN
    /\ state_messages \in PriorMessages
    /\ pc = "loop" /\ idx = 1
    /\ metrics = Unset /\ line_items = Unset /\ market_cap = Unset
    /\ example_signals = PyDict(EmptyMap)
    /\ final_signals = Unset /\ returned = Unset
    /\ llm_reply = Unset /\ llm_calls = 0 /\ trace = <<>>
    /\ ScorerIdle /\ SignalIdle /\ RouteIdle

\* the loop left one ticker early
LoopExhaustedOneEarly == idx >= Len(tickers)

\* line 45: the for loop has no ticker left
LoopExhausted == idx > Len(tickers)

\* lines 49-64: no handler surrounds the MetricsCollector calls, so an error
\* of one leaves example_agent
AfterCollectorCallSwallowed(raised, next) == next

AfterCollectorCall(raised, next) == IF raised THEN "raised" ELSE next

\* line 46
StartTicker ==
    /\ pc = "loop" /\ ~LoopExhausted
    /\ trace' = Append(trace, Event("progress", Some(tickers[idx]), "collecting data"))
    /\ pc' = "get_financial_metrics"
    /\ UNCHANGED <<tickers, show_reasoning, state_messages, idx, metrics, line_items,
                   market_cap, example_signals, final_signals, returned, llm_reply,
                   llm_calls, scorerVars, signalVars, routeVars>>

\* A MetricsCollector call: it raises, or returns one of results into the local.
CollectorCall(name, results, local, next) ==
    /\ pc = name
    /\ \E raised \in BOOLEAN :
         /\ trace' = Append(trace, Event(name, Some(tickers[idx]),
                                         IF raised THEN "raise" ELSE "ok"))
         /\ pc' = AfterCollectorCall(raised, next)
         /\ IF raised THEN local' = local ELSE local' \in results

\* line 49
GetFinancialMetrics ==
    /\ CollectorCall("get_financial_metrics", AgentMetricsLists, metrics,
                     "search_line_items")
    /\ UNCHANGED <<tickers, show_reasoning, state_messages, idx, line_items,
                   market_cap, example_signals, final_signals, returned, llm_reply,
                   llm_calls, scorerVars, signalVars, routeVars>>

\* lines 51-62
SearchLineItems ==
    /\ CollectorCall("search_line_items", LineItemResults, line_items, "get_market_cap")
    /\ UNCHANGED <<tickers, show_reasoning, state_messages, idx, metrics,
                   market_cap, example_signals, final_signals, returned, llm_reply,
                   llm_calls, scorerVars, signalVars, routeVars>>

\* line 64
GetMarketCap ==
    /\ CollectorCall("get_market_cap", MarketCapResults, market_cap, "analyze")
    /\ UNCHANGED <<tickers, show_reasoning, state_messages, idx, metrics,
                   line_items, example_signals, final_signals, returned, llm_reply,
                   llm_calls, scorerVars, signalVars, routeVars>>

\* lines 80-89: the entry stored for a ticker
SignalEntry(core_analysis, advanced_analysis, comprehensive_score, sig) ==
    PyDict(("signal" :> PyStr(sig.signal)) @@
           ("confidence" :> PyNum(sig.confidence)) @@
           ("reasoning" :> sig.reasoning) @@
           ("analysis_details" :>
              PyDict(("core_score" :> PyNum(Frac(core_analysis.score, 1))) @@
                     ("advanced_score" :> PyNum(Frac(advanced_analysis.score, 1))) @@
                     ("comprehensive_score" :> PyNum(comprehensive_score)))))

\* lines 67-91
Analyze ==
    /\ pc = "analyze"
    /\ LET ticker == tickers[idx]
           core_analysis == analyze_core_metrics(metrics, line_items)
           advanced_analysis == perform_advanced_analysis(metrics, line_items)
           comprehensive_score ==
               calculate_comprehensive_score(core_analysis, advanced_analysis)
           sig == generate_signal(comprehensive_score, market_cap)
       IN  /\ example_signals' =
                PyDict((ticker :> SignalEntry(core_analysis, advanced_analysis,
                                              comprehensive_score, sig))
                       @@ example_signals.entries)
           /\ trace' = trace \o
                <<Event("progress", Some(ticker), "analyzing core metrics"),
                  Event("progress", Some(ticker), "performing advanced analysis"),
                  Event("progress", Some(ticker), "comprehensive evaluation"),
                  Event("progress", Some(ticker), "done")>>
    /\ idx' = idx + 1
    /\ pc' = "loop"
    /\ UNCHANGED <<tickers, show_reasoning, state_messages, metrics, line_items,
                   market_cap, final_signals, returned, llm_reply, llm_calls,
                   scorerVars, signalVars, routeVars>>

\* line 94
ValidateWithLlm ==
    /\ pc = "loop" /\ LoopExhausted
    /\ \E reply \in LlmReplies(tickers) :
         /\ llm_reply' = reply
         /\ final_signals' = validate_with_llm(example_signals, reply)
    /\ llm_calls' = llm_calls + 1
    /\ trace' = Append(trace, Event("call_llm", None, "called"))
    /\ pc' = "message"
    /\ UNCHANGED <<tickers, show_reasoning, state_messages, idx, metrics, line_items,
                   market_cap, example_signals, returned, scorerVars, signalVars,
                   routeVars>>

\* line 105: the progress updates made after validate_with_llm returned
FinalProgressPerTicker ==
    [i \in 1..Len(tickers) |-> Event("progress", Some(tickers[i]), "done")]

FinalProgress == <<Event("progress", None, "done")>>

\* lines 97-110
Finish ==
    /\ pc = "message"
    /\ LET message == [name |-> "example_agent", content |-> json_dumps(final_signals)]
       IN  returned' = [messages |-> state_messages \o <<message>>, data |-> "data"]
    /\ trace' = trace
                \o (IF show_reasoning
                    THEN <<Event("show_agent_reasoning", None, "Example Agent")>>
                    ELSE <<>>)
                \o FinalProgress
    /\ pc' = "done"
    /\ UNCHANGED <<tickers, show_reasoning, state_messages, idx, metrics, line_items,
                   market_cap, example_signals, final_signals, llm_reply, llm_calls,
                   scorerVars, signalVars, routeVars>>

Next ==
    \/ StartTicker
    \/ GetFinancialMetrics
    \/ SearchLineItems
    \/ GetMarketCap
    \/ Analyze
    \/ ValidateWithLlm
    \/ Finish

Spec == AgentInit /\ [][Next]_vars

----------------------------------------------------------------------------
(* SpecRoute: one request to GET /language-models/ (get_language_models).  *)

PROVIDER_TO_API_KEY ==
    ("OpenAI" :> "OPENAI_API_KEY") @@
    ("Anthropic" :> "ANTHROPIC_API_KEY") @@
    ("Google" :> "GOOGLE_API_KEY") @@
    ("Groq" :> "GROQ_API_KEY") @@
    ("xAI" :> "XAI_API_KEY") @@
    ("DeepSeek" :> "DEEPSEEK_API_KEY") @@
    ("GigaChat" :> "GIGACHAT_API_KEY") @@
    ("OpenRouter" :> "OPENROUTER_API_KEY") @@
    ("Azure OpenAI" :> "AZURE_OPENAI_API_KEY")

\* dict.get(key, default) and dict.get(key)
DictGet(d, key, default) == IF key \in DOMAIN d THEN d[key] ELSE default
DictGetOrNone(d, key) == IF key \in DOMAIN d THEN Some(d[key]) ELSE None

Model(provider, display_name, model_name) ==
    [provider |-> provider, display_name |-> display_name, model_name |-> model_name]

\* Catalog entries: providers of the table, a provider outside it, and an
\* entry with no provider key.
CatalogModels ==
    {Model("OpenAI", "GPT-4o", "gpt-4o"),
     Model("Groq", "Llama 4", "llama-4"),
     Model("Anthropic", "Claude", "claude"),
     Model("Mistral", "Mistral Large", "mistral-large"),
     [display_name |-> "Unnamed", model_name |-> "unnamed"]}

\* Locally probed models; one carries the name of a cloud provider.
LocalModels ==
    {Model("Ollama", "Llama 3 (local)", "llama3"),
     Model("OpenAI", "GPT-OSS (local)", "gpt-oss")}

\* The provider column of the active rows of the credential store.
KeyProviders == {"OPENAI_API_KEY", "GROQ_API_KEY", "Groq", "FINANCIAL_DATASETS_API_KEY"}

ApiKey(provider) == [provider |-> provider, is_active |-> TRUE]

RouteInit ==
    /\ api_keys \in {{ApiKey(p) : p \in ps} : ps \in SUBSET KeyProviders}
    /\ all_models \in UNION {[1..n -> CatalogModels] : n \in 0..MaxCatalog}
    /\ ollama_models \in UNION {[1..n -> LocalModels] : n \in 0..MaxOllama}
    /\ response = Unset
    /\ AgentIdle /\ ScorerIdle /\ SignalIdle

\* line 60 with the provider name itself looked up among the credentials
HasApiKeyByProviderName(model, available_providers) ==
    DictGet(model, "provider", "") \in available_providers

\* lines 57-60: the test that admits a catalog entry
HasApiKey(model, available_providers) ==
    LET provider == DictGet(model, "provider", "")
        api_key_name == DictGetOrNone(PROVIDER_TO_API_KEY, provider)
    IN  /\ api_key_name # None
        /\ api_key_name[1] # ""
        /\ api_key_name[1] \in available_providers

\* lines 54-64: the loop over the catalog, from entry i on
RECURSIVE FilterFrom(_, _, _, _)
FilterFrom(models, i, available_providers, filtered_models) ==
    IF i > Len(models) THEN filtered_models
    ELSE FilterFrom(models, i + 1, available_providers,
                    IF HasApiKey(models[i], available_providers)
                    THEN Append(filtered_models, models[i])
                    ELSE filtered_models)

\* lines 41-76: the whole handler; a collaborator that raises gives HTTP 500
GetLanguageModels ==
    /\ response = Unset
    /\ \E failing \in {"none", "get_all_api_keys", "get_models_list",
                       "get_available_models"} :
         LET available_providers == {key.provider : key \in api_keys}
             filtered_models == FilterFrom(all_models, 1, available_providers, <<>>)
         IN  response' =
               IF failing = "none"
               THEN [status |-> 200,
                     body |-> [models |-> filtered_models \o ollama_models]]
               ELSE [status |-> 500,
                     body |-> [detail |-> <<"Failed to retrieve models: ", failing>>]]
    /\ UNCHANGED <<api_keys, all_models, ollama_models, agentVars, scorerVars,
                   signalVars>>

RouteNext == GetLanguageModels

SpecRoute == RouteInit /\ [][RouteNext]_vars

----------------------------------------------------------------------------
(* Properties.                                                             *)

\* positions of the trace
LlmCallAt(i) == trace[i].call = "call_llm"
ProgressAt(i) == trace[i].call = "progress"
ProgressNaming(i, t) == ProgressAt(i) /\ trace[i].ticker = Some(t)
CollectorRaisedAt(i) == trace[i].call \in CollectorCalls /\ trace[i].status = "raise"

\* the reply of call_llm is a failure of the kinds C1 names: an error, or a
\* text that is not JSON
ReplyRaised == llm_reply # Unset /\ llm_reply.kind = "raise"
ReplyNotJson ==
    /\ llm_reply # Unset
    /\ llm_reply.kind = "return"
    /\ llm_reply.result.type = "text"
    /\ ~llm_reply.result.json
ReplyIsJson ==
    /\ llm_reply # Unset
    /\ llm_reply.kind = "return"
    /\ llm_reply.result.type = "text"
    /\ llm_reply.result.json

\* the message example_agent appends when its final signals are v
ResultMessage(v) == [name |-> "example_agent", content |-> JsonText(v)]

\* C1: whenever the single LLM call raises or returns text that is not JSON,
\* validate_with_llm returns exactly the signals it was given, and the run
\* goes on to return them in its message: no error reaches the caller.
C1_FallbackOnFailure ==
    (ReplyRaised \/ ReplyNotJson) =>
        /\ final_signals = example_signals
        /\ pc \in {"message", "done"}
        /\ pc = "done" =>
             returned.messages = state_messages \o <<ResultMessage(example_signals)>>

\* C1 witness: a batch of two different tickers whose review came back as text
\* that is not JSON has returned the two deterministic signals.
C1_Witness ==
    /\ pc = "done" /\ Len(tickers) = 2 /\ tickers[1] # tickers[2]
    /\ ReplyNotJson
    /\ final_signals = example_signals
    /\ DOMAIN final_signals.entries = Tickers

\* the shape the review is asked for: ticker -> {signal, confidence, reasoning}
WellShapedEntry(e) ==
    /\ e.type = "dict"
    /\ DOMAIN e.entries = {"signal", "confidence", "reasoning"}
    /\ e.entries["signal"] \in {PyStr("bullish"), PyStr("bearish"), PyStr("neutral")}
    /\ e.entries["confidence"].type = "number"
    /\ FracGE(e.entries["confidence"].n, 0)
    /\ FracLE(e.entries["confidence"].n, 100)
    /\ e.entries["reasoning"].type = "str"
WellShaped(v) ==
    /\ v.type = "dict"
    /\ \A t \in DOMAIN v.entries : WellShapedEntry(v.entries[t])

\* C2 (as claimed): a JSON reply that is not of the expected shape makes
\* validate_with_llm fall back to the deterministic signals.
C2_MalformedFallsBack ==
    (pc = "done" /\ ReplyIsJson /\ ~WellShaped(llm_reply.result.encodes)) =>
        final_signals = example_signals

\* the per-ticker output entry: signal, confidence, reasoning, analysis_details
FullEntry(e) ==
    /\ e.type = "dict"
    /\ DOMAIN e.entries = {"signal", "confidence", "reasoning", "analysis_details"}
    /\ e.entries["analysis_details"].type = "dict"
    /\ DOMAIN e.entries["analysis_details"].entries =
         {"core_score", "advanced_score", "comprehensive_score"}
FullOutput(v) ==
    \A t \in Range(tickers) :
       /\ v.type = "dict"
       /\ t \in DOMAIN v.entries
       /\ FullEntry(v.entries[t])

\* C3 (as claimed): after any completed run, the emitted output holds for
\* every ticker of the batch an entry with signal, confidence, reasoning and
\* analysis_details (core_score, advanced_score, comprehensive_score).
C3_OutputComplete ==
    pc = "done" =>
        /\ returned.messages[Len(returned.messages)].content.type = "text"
        /\ FullOutput(returned.messages[Len(returned.messages)].content.encodes)

\* C4: the LLM is called exactly once per run that gets past data collection,
\* for the whole batch (no ticker named), only after the deterministic signal
\* of every ticker has been computed, and never again after a failure; a run
\* that is still collecting, or that a collector error ended, has called it
\* zero times.
C4_OneLlmCall ==
    /\ llm_calls = Cardinality({i \in DOMAIN trace : LlmCallAt(i)})
    /\ pc \in {"message", "done"} => llm_calls = 1
    /\ pc \notin {"message", "done"} => llm_calls = 0
    /\ \A i \in DOMAIN trace :
         LlmCallAt(i) =>
            /\ trace[i].ticker = None
            /\ DOMAIN example_signals.entries = Range(tickers)
            /\ \A k \in DOMAIN tickers :
                 \E j \in 1..(i - 1) :
                    trace[j] = Event("progress", Some(tickers[k]), "done")
            /\ Cardinality({j \in 1..(i - 1) : trace[j].call = "get_market_cap"})
                 = Len(tickers)

\* C4 witness: a two-ticker batch whose review failed has returned, with one
\* call made.
C4_Witness ==
    /\ pc = "done" /\ Len(tickers) = 2 /\ ReplyRaised /\ llm_calls = 1

\* C5 (as claimed): for every ticker of the batch a progress update naming it
\* is emitted before the LLM call and another one after the call.
C5_ProgressBeforeAndAfter ==
    pc = "done" =>
        \A i \in DOMAIN trace :
           LlmCallAt(i) =>
              \A t \in Range(tickers) :
                 /\ \E j \in 1..(i - 1) : ProgressNaming(j, t)
                 /\ \E j \in (i + 1)..Len(trace) : ProgressNaming(j, t)

\* C5 (amended): for every ticker of the batch a progress update naming it is
\* emitted before the LLM call; after the call no progress update names a
\* ticker, and a run that returns has emitted exactly one, for the whole batch.
C5_ProgressBeforeOnly ==
    \A i \in DOMAIN trace :
       LlmCallAt(i) =>
          /\ \A t \in Range(tickers) : \E j \in 1..(i - 1) : ProgressNaming(j, t)
          /\ \A j \in (i + 1)..Len(trace) : ProgressAt(j) => trace[j].ticker = None
          /\ pc = "done" =>
               Cardinality({j \in (i + 1)..Len(trace) : ProgressAt(j)}) = 1

\* C5 witness: a returned run over two tickers, the last update naming none.
C5_Witness ==
    /\ pc = "done" /\ Len(tickers) = 2
    /\ trace[Len(trace)] = Event("progress", None, "done")
    /\ \E i \in DOMAIN trace : LlmCallAt(i)

\* C6: a MetricsCollector call that raises ends the run there: it is the last
\* thing the run did (no later ticker is processed), the LLM is never called
\* and nothing is returned, so no message is appended.
C6_CollectorErrorPropagates ==
    \A i \in DOMAIN trace :
       CollectorRaisedAt(i) =>
          /\ i = Len(trace)
          /\ pc = "raised"
          /\ trace[i].ticker = Some(tickers[idx])
          /\ llm_calls = 0
          /\ final_signals = Unset
          /\ returned = Unset

\* C6 witness: get_market_cap raised for the second ticker of a batch.
C6_Witness ==
    /\ pc = "raised" /\ idx = 2 /\ Len(tickers) = 2
    /\ trace[Len(trace)] = Event("get_market_cap", Some(tickers[2]), "raise")
    /\ DOMAIN example_signals.entries = {tickers[1]}

\* C7: generate_signal returns the classification fixed by the score alone:
\* bullish with confidence equal to the score from 60 up, neutral with
\* confidence 50 in [40, 60), bearish with confidence 100 - score below 40;
\* the confidence lies in [0, 100].
C7_Classification ==
    gs_result # Unset =>
        /\ FracGE(gs_score, 60) =>
             gs_result.signal = "bullish" /\ gs_result.confidence = gs_score
        /\ (FracGE(gs_score, 40) /\ ~FracGE(gs_score, 60)) =>
             gs_result.signal = "neutral" /\ gs_result.confidence = Frac(50, 1)
        /\ ~FracGE(gs_score, 40) =>
             /\ gs_result.signal = "bearish"
             /\ gs_result.confidence.den = gs_score.den
             /\ gs_result.confidence.num + gs_score.num = 100 * gs_score.den
        /\ FracGE(gs_result.confidence, 0) /\ FracLE(gs_result.confidence, 100)

\* C7 witness: the score 60, the lower end of the bullish tier, classified
\* with a market cap of zero.
C7_Witness ==
    /\ gs_result # Unset /\ gs_score = Frac(60, 1) /\ gs_market_cap = Some(0)
    /\ gs_result.signal = "bullish"

\* what a rubric item adds to max_score, and the reasoning key it writes
Weight(v, w) == IF Truthy(v) THEN w ELSE 0
Key(v, k) == IF Truthy(v) THEN {k} ELSE {}

CoreRule(b, m) ==
    IF Len(m) = 0
    THEN b = Breakdown(0, 0, EmptyMap)
    ELSE /\ b.max_score = Weight(m[1].return_on_equity, 3) + Weight(m[1].debt_to_equity, 2)
         /\ DOMAIN b.reasoning = Key(m[1].return_on_equity, "roe")
                                   \cup Key(m[1].debt_to_equity, "debt")
         /\ 0 <= b.score /\ b.score <= b.max_score

AdvancedRule(b, m) ==
    /\ b.max_score = Weight(m[1].revenue_growth, 3) + Weight(m[1].earnings_growth, 2)
    /\ DOMAIN b.reasoning = Key(m[1].revenue_growth, "revenue_growth")
                              \cup Key(m[1].earnings_growth, "earnings_growth")
    /\ 0 <= b.score /\ b.score <= b.max_score

\* C8 (as claimed): for every snapshot sequence, in both scorers max_score is
\* the sum of the weights of the present fields of the current snapshot, each
\* present field writes one reasoning entry, and 0 <= score <= max_score.
C8_PresentFieldsCount ==
    sc_advanced # Unset =>
        /\ CoreRule(sc_core, sc_metrics)
        /\ IF Len(sc_metrics) = 0
           THEN sc_advanced = Breakdown(0, 0, EmptyMap)
           ELSE AdvancedRule(sc_advanced, sc_metrics)

\* C8 (amended): the same, except that perform_advanced_analysis scores the
\* growth fields only when the sequence holds at least two snapshots; with
\* fewer its breakdown is score 0, max_score 0 and no reasoning, whatever the
\* fields of the snapshot hold.
C8_PresentFieldsCountWithPrevious ==
    sc_advanced # Unset =>
        /\ CoreRule(sc_core, sc_metrics)
        /\ IF Len(sc_metrics) < 2
           THEN sc_advanced = Breakdown(0, 0, EmptyMap)
           ELSE AdvancedRule(sc_advanced, sc_metrics)

\* C8 witness: two snapshots, the current one with no ROE, a debt-to-equity of
\* 0.20, a revenue growth of zero and an earnings growth of 0.30.
C8_Witness ==
    /\ sc_advanced # Unset /\ Len(sc_metrics) = 2
    /\ sc_metrics[1] = Snapshot(None, Some(20), Some(0), Some(30))
    /\ sc_core = Breakdown(2, 2, "debt" :> "conservative debt ratio (below 30%)")
    /\ sc_advanced.max_score = 2 /\ sc_advanced.score = 2

\* C9: calculate_comprehensive_score returns exactly 0, without dividing, when
\* the two max_scores sum to 0, and otherwise 100 * (sum of the scores) / (sum
\* of the max_scores); the value lies in [0, 100].
C9_ComprehensiveScore ==
    sc_score # Unset =>
        LET total == sc_core.score + sc_advanced.score
            max == sc_core.max_score + sc_advanced.max_score
        IN  /\ sc_score # ZeroDivisionError
            /\ max = 0 => sc_score = Frac(0, 1)
            /\ max > 0 => sc_score.num * max = 100 * total * sc_score.den
            /\ sc_score.den > 0
            /\ FracGE(sc_score, 0) /\ FracLE(sc_score, 100)

\* C9 witness: a single snapshot with no scorable field scores exactly 0.
C9_Witness ==
    /\ sc_score = Frac(0, 1) /\ Len(sc_metrics) = 1
    /\ sc_core.max_score + sc_advanced.max_score = 0

\* the catalog entries the claim admits: the provider is in the table and the
\* credential identifier the table gives for it is active
Admitted(model) ==
    /\ "provider" \in DOMAIN model
    /\ model.provider \in DOMAIN PROVIDER_TO_API_KEY
    /\ \E key \in api_keys : key.provider = PROVIDER_TO_API_KEY[model.provider]

\* C10: a successful get_language_models returns the admitted catalog entries
\* in catalog order, followed by all locally probed models, unchecked.
C10_CatalogFilter ==
    (response # Unset /\ response.status = 200) =>
        response.body.models = SelectSeq(all_models, Admitted) \o ollama_models

\* C10 witness: the store holds a row named "Groq" and the OpenAI credential;
\* the catalog is OpenAI then Groq; a local model named for OpenAI is probed.
C10_Witness ==
    /\ response # Unset /\ response.status = 200
    /\ {k.provider : k \in api_keys} = {"OPENAI_API_KEY", "Groq"}
    /\ all_models = <<Model("OpenAI", "GPT-4o", "gpt-4o"), Model("Groq", "Llama 4", "llama-4")>>
    /\ ollama_models = <<Model("OpenAI", "GPT-OSS (local)", "gpt-oss")>>
    /\ response.body.models = <<all_models[1], ollama_models[1]>>

====
